---- MODULE Spec2Model ----
(***************************************************************************)
(* A model of the argmin optimisation toolbox: Brent's univariate          *)
(* minimiser driven by the Executor loop, Newton's method (the Solver      *)
(* implementation and the older self-driving implementation) and the       *)
(* parameter-bound sampling of ArgminParameter::random.                   *)
(*                                                                         *)
(* Floating point numbers are modelled on a fixed-point grid: a position   *)
(* or a cost is an integer number of grid units, products are exact and    *)
(* every operation that leaves the grid (the division p/q, the products    *)
(* c*e and eps*|x|) rounds to the nearest grid point.  The midpoint        *)
(* m = (a+b)/2 is kept exact by comparing doubled quantities.  The sign of *)
(* a zero step, which f64::signum reads, is carried beside the step.       *)
(***************************************************************************)
EXTENDS Integers, Sequences, FiniteSets, TLC

VARIABLES
    prog,    \* which program of the repository this behaviour runs
    pc,      \* position of the run: "init", "run", "done", "error"
    brent,   \* the Brent solver's fields
    state,   \* the Executor's IterState
    op,      \* the OpWrapper: call counters, and the calls of the latest solver call
    evals,   \* the cost function as far as it has been evaluated: <<point, cost>>
    error,   \* the error the run or the call ended with, "None" without one
    newton,  \* the Newton solver (solver/newton/newton_method.rs), NoSolver once consumed
    arg,     \* the argument of the latest call of a constructor or of random
    old,     \* the Newton struct of src/newton.rs with its NewtonState
    rnd      \* the outcome of ArgminParameter::random

vars == <<prog, pc, brent, state, op, evals, error, newton, arg, old, rnd>>

(***************************************************************************)
(* Bounds of the model.                                                    *)
(***************************************************************************)
MaxWidth == 12
MaxCost == 2
MaxT == 2
MaxItersCap == 3
MaxGrad == 2
MaxHess == 2
MaxDim == 2
MaxBound == 2

(***************************************************************************)
(* Program constants.                                                      *)
(***************************************************************************)
\* c = (3 - sqrt 5) / 2 = 0.381966..., as the ratio CNum / CDen
CNum == 382
CDen == 1000
\* eps is EpsNum / EpsDen for the numerators of EpsNums
EpsDen == 8
EpsNums == {0, 1}
\* gamma is GammaNum / GammaDen
GammaDen == 2

Costs == 0..MaxCost
\* f64::INFINITY as a cost: above every cost of the grid
Inf == MaxCost + 1
\* f64::NAN as a position or a cost: a value apart from every number of the grid
NaN == 0 - (CDen * CDen)
\* the default iteration cap (no cap configured)
Unbounded == 0 - 1

\* a solver that was consumed or never built, a call not made
NoSolver == [none |-> TRUE]
NoArg == <<>>
NoCall == [result |-> "NotCalled", out |-> <<>>, samples |-> 0]

Abs(n) == IF n < 0 THEN 0 - n ELSE n

\* one of the operands is NaN: the arithmetic result is NaN, a comparison is false
HasNaN(vals) == NaN \in vals

\* the f64 comparisons <, <= and ==
Lt(x, y) == ~HasNaN({x, y}) /\ x < y
Le(x, y) == ~HasNaN({x, y}) /\ x <= y
Eq(x, y) == ~HasNaN({x, y}) /\ x = y

\* n / d rounded to the nearest grid point, d > 0
RoundDiv(n, d) == (2 * n + d) \div (2 * d)

\* f64::signum of a value whose sign bit is neg: -1.0 for a negative number or -0.0,
\* 1.0 for a positive number or +0.0
Signum(val, neg) == IF val < 0 \/ (val = 0 /\ neg) THEN 0 - 1 ELSE 1

(***************************************************************************)
(* Brent's method: src/src/solver/brentopt/mod.rs                          *)
(***************************************************************************)
\* Brent::new(min, max).set_tolerance(eps, t)
BrentNew(min, max, epsNum, t) ==
    [eps |-> epsNum, t |-> t, a |-> min, b |-> max,
     u |-> NaN, v |-> NaN, w |-> NaN, x |-> NaN,
     fv |-> NaN, fw |-> NaN, fx |-> NaN,
     e |-> 0, d |-> 0]

\* the point init evaluates: u = a + c * (b - a)
InitPoint(s) == s.a + RoundDiv(CNum * (s.b - s.a), CDen)

\* init up to the operator call: v, w, x are set before op.apply
BrentInitPoints(s) ==
    LET u == InitPoint(s) IN [s EXCEPT !.v = u, !.w = u, !.x = u]

\* init after a successful operator call returning f
BrentInit(s, f) ==
    [BrentInitPoints(s) EXCEPT !.fv = f, !.fw = f, !.fx = f]

\* tol = eps * |x| + t
Tol(s) == IF s.x = NaN THEN NaN ELSE RoundDiv(s.eps * Abs(s.x), EpsDen) + s.t

\* mutant: the termination test with the tolerance doubled
PrecisionReachedLoose(s) ==
    Abs(2 * s.x - (s.a + s.b)) <= 8 * Tol(s) - (s.b - s.a)

\* mutant: the termination test with the comparison turned round
PrecisionReachedFlipped(s) ==
    Abs(2 * s.x - (s.a + s.b)) >= 4 * Tol(s) - (s.b - s.a)

\* the termination test |x - m| <= 2 tol - (b - a) / 2 with m = (a + b) / 2,
\* both sides doubled
PrecisionReached(s) ==
    /\ ~HasNaN({s.x, s.a, s.b})
    /\ Abs(2 * s.x - (s.a + s.b)) <= 4 * Tol(s) - (s.b - s.a)

\* x < m
LeftOfMiddle(s) == ~HasNaN({s.x, s.a, s.b}) /\ 2 * s.x < s.a + s.b

\* the parabola through (v, fv), (w, fw), (x, fx): p and q before the sign change
ParabolaP(s) ==
    IF HasNaN({s.x, s.v, s.w, s.fx, s.fv, s.fw}) THEN NaN
    ELSE (s.x - s.v) * (s.x - s.v) * (s.fx - s.fw)
            - (s.x - s.w) * (s.x - s.w) * (s.fx - s.fv)

ParabolaQ(s) ==
    IF HasNaN({s.x, s.v, s.w, s.fx, s.fv, s.fw}) THEN NaN
    ELSE 2 * ((s.x - s.w) * (s.fx - s.fv) - (s.x - s.v) * (s.fx - s.fw))

\* (p, q) with q >= 0; neg is the sign bit of p when p is zero.  A NaN q fails the
\* test q >= 0 and is negated with p: both stay NaN.
Parabola(s) ==
    LET p == ParabolaP(s)
        q == ParabolaQ(s)
    IN  IF q = NaN THEN [p |-> NaN, q |-> NaN, neg |-> TRUE]
        ELSE IF q >= 0 THEN [p |-> p, q |-> q, neg |-> FALSE]
                       ELSE [p |-> 0 - p, q |-> 0 - q, neg |-> TRUE]

\* the condition under which the golden section step is taken
TakeGolden(s) ==
    LET pq == Parabola(s)
        tol == Tol(s)
    IN  \/ ~HasNaN({s.e, tol}) /\ Abs(s.e) <= tol
        \/ ~HasNaN({pq.p, s.a, s.x}) /\ pq.p < pq.q * (s.a - s.x)
        \/ ~HasNaN({pq.p, s.b, s.x}) /\ pq.p > pq.q * (s.b - s.x)
        \/ ~HasNaN({pq.p, s.e}) /\ 2 * Abs(pq.p) >= pq.q * Abs(s.e)

\* golden section step: e = (if x < m then b else a) - x, d = c * e
GoldenStep(s) ==
    LET end == IF LeftOfMiddle(s) THEN s.b ELSE s.a
        e == IF HasNaN({end, s.x}) THEN NaN ELSE end - s.x
    IN  IF e = NaN THEN [e |-> NaN, d |-> NaN, neg |-> FALSE]
        ELSE [e |-> e, d |-> RoundDiv(CNum * e, CDen), neg |-> e < 0]

\* parabolic interpolation step: e = d, d = p / q, kept away from a and b
ParabolicStep(s) ==
    LET pq == Parabola(s)
        tol == Tol(s)
        d == IF pq.p = NaN THEN NaN ELSE RoundDiv(pq.p, pq.q)
        dneg == pq.p # NaN /\ (pq.p < 0 \/ (pq.p = 0 /\ pq.neg))
        sg == IF HasNaN({s.a, s.b, s.x}) THEN NaN ELSE Signum(s.a + s.b - 2 * s.x, FALSE)
        tooClose == \/ ~HasNaN({s.x, d, s.a, tol}) /\ s.x + d - s.a < 2 * tol
                    \/ ~HasNaN({s.b, s.x, d, tol}) /\ s.b - s.x - d < 2 * tol
    IN  IF tooClose
        THEN IF sg = NaN THEN [e |-> s.d, d |-> NaN, neg |-> FALSE]
                         ELSE [e |-> s.d, d |-> sg * tol, neg |-> sg < 0]
        ELSE [e |-> s.d, d |-> d, neg |-> dneg]

Step(s) == IF TakeGolden(s) THEN GoldenStep(s) ELSE ParabolicStep(s)

\* u = x + (if |d| >= tol then d else signum(d) * tol)
TrialPoint(s, st) ==
    IF HasNaN({s.x, st.d}) THEN NaN
    ELSE s.x + (IF Abs(st.d) >= Tol(s) THEN st.d ELSE Signum(st.d, st.neg) * Tol(s))

\* next_iter up to the operator call: d, e and u are assigned before op.apply
BrentStepTo(s) ==
    LET st == Step(s)
    IN  [s EXCEPT !.e = st.e, !.d = st.d, !.u = TrialPoint(s, st)]

\* mutant: the bracket shrinks on the side of u
AcceptTrialWrongSide(s, fu) ==
    [s EXCEPT !.a = IF s.u < s.x THEN s.x ELSE s.a,
              !.b = IF s.u < s.x THEN s.b ELSE s.x,
              !.v = s.w, !.fv = s.fw,
              !.w = s.x, !.fw = s.fx,
              !.x = s.u, !.fx = fu]

\* the branch fu <= fx: u becomes the best point
AcceptTrial(s, fu) ==
    [s EXCEPT !.b = IF Lt(s.u, s.x) THEN s.x ELSE s.b,
              !.a = IF Lt(s.u, s.x) THEN s.a ELSE s.x,
              !.v = s.w, !.fv = s.fw,
              !.w = s.x, !.fw = s.fx,
              !.x = s.u, !.fx = fu]

\* the branch fu > fx: x stays, u bounds the bracket
RejectTrial(s, fu) ==
    LET s1 == [s EXCEPT !.a = IF Lt(s.u, s.x) THEN s.u ELSE s.a,
                        !.b = IF Lt(s.u, s.x) THEN s.b ELSE s.u]
    IN  IF Le(fu, s.fw) \/ Eq(s.w, s.x)
        THEN [s1 EXCEPT !.v = s.w, !.fv = s.fw, !.w = s.u, !.fw = fu]
        ELSE IF Le(fu, s.fv) \/ Eq(s.v, s.x) \/ Eq(s.v, s.w)
        THEN [s1 EXCEPT !.v = s.u, !.fv = fu]
        ELSE s1

\* mutant: the comparison turned round
TrialAcceptedFlipped(fu, fx) == fu >= fx

\* the test fu <= fx
TrialAccepted(fu, fx) == Le(fu, fx)

\* the update of the bracket and of the point history after fu = f(u)
BrentUpdate(s, fu) ==
    IF TrialAccepted(fu, s.fx) THEN AcceptTrial(s, fu) ELSE RejectTrial(s, fu)

(***************************************************************************)
(* The cost operator and its wrapper.                                      *)
(***************************************************************************)
Evaluated == {pr[1] : pr \in evals}

\* the costs the operator may return at point pt: a cost function is deterministic,
\* so an evaluated point keeps its cost
CostsAt(pt) ==
    IF pt \in Evaluated THEN {pr[2] : pr \in {q \in evals : q[1] = pt}} ELSE Costs

\* the same for a cost function that is not defined everywhere, as x.sqrt() or x.ln()
\* below zero: it may return NaN, and a NaN trial point is evaluated like any other
AnyCostsAt(pt) ==
    IF pt \in Evaluated THEN {pr[2] : pr \in {q \in evals : q[1] = pt}}
    ELSE Costs \cup {NaN}

\* the costs the operator may return at pt, partial telling whether it may return NaN
Returns(pt, partial) == IF partial THEN AnyCostsAt(pt) ELSE CostsAt(pt)

\* the operator calls init makes, in order, each with its argument
BrentInitCalls(s) == <<(<<"apply", InitPoint(s)>>)>>

\* mutant: the trial point is evaluated before the precision test
BrentNextIterCallsEager(s) == <<(<<"apply", BrentStepTo(s).u>>)>>

\* the operator calls next_iter makes: none when the precision test ends the run
BrentNextIterCalls(s) ==
    IF PrecisionReached(s) THEN <<>> ELSE <<(<<"apply", BrentStepTo(s).u>>)>>

CountOf(calls, what) == Cardinality({i \in DOMAIN calls : calls[i][1] = what})

\* what an operator call returns: a value, or an error
Ret(val) == [err |-> "None", val |-> val]
Fail(err) == [err |-> err, val |-> 0]

\* the OpWrapper counts every call it forwards, whether or not the operator fails,
\* and hands back what the operator returned
Forward(o, calls, returned) ==
    [cost_func_count |-> o.cost_func_count + CountOf(calls, "apply"),
     grad_func_count |-> o.grad_func_count + CountOf(calls, "gradient"),
     hessian_func_count |-> o.hessian_func_count + CountOf(calls, "hessian"),
     calls |-> calls, returned |-> returned]

NewOpWrapper ==
    [cost_func_count |-> 0, grad_func_count |-> 0, hessian_func_count |-> 0,
     calls |-> <<>>, returned |-> <<>>]

(***************************************************************************)
(* The Executor and its IterState.                                         *)
(***************************************************************************)
NewState(maxIters) ==
    [param |-> NaN, cost |-> Inf, prev_param |-> NaN, prev_cost |-> Inf,
     best_param |-> NaN, best_cost |-> Inf,
     iter |-> 0, max_iters |-> maxIters, termination_reason |-> "NotTerminated"]

\* best is updated by strict improvement: a tie keeps the earlier point
IsImprovement(cost, best) == Lt(cost, best)

\* merge a step output (param, cost) into the state
Merge(st, param, cost) ==
    LET better == IsImprovement(cost, st.best_cost)
    IN  [st EXCEPT !.prev_param = st.param, !.prev_cost = st.cost,
                   !.param = param, !.cost = cost,
                   !.best_param = IF better THEN param ELSE st.best_param,
                   !.best_cost = IF better THEN cost ELSE st.best_cost]

CapReached(st) == st.max_iters # Unbounded /\ st.iter >= st.max_iters

\* the stop test: a reason signalled by the solver, else the iteration cap
Stop(st, reason) ==
    IF reason # "NotTerminated" THEN [st EXCEPT !.termination_reason = reason]
    ELSE IF CapReached(st) THEN [st EXCEPT !.termination_reason = "MaxItersReached"]
    ELSE st

PcAfter(st) == IF st.termination_reason = "NotTerminated" THEN "run" ELSE "done"

\* run(), step 1 with Brent: init evaluates the cost once and emits (x, fx);
\* partial tells whether the cost function may return NaN
BrentRunInitWith(partial) ==
    /\ prog = "brent"
    /\ pc = "init"
    /\ \E ok \in BOOLEAN :
         LET pt == InitPoint(brent) IN
         IF ok
         THEN \E f \in Returns(pt, partial) :
                LET s == BrentInit(brent, f)
                    st == Stop(Merge(state, s.x, s.fx), "NotTerminated")
                IN  /\ brent' = s
                    /\ evals' = evals \cup {<<pt, f>>}
                    /\ state' = st
                    /\ pc' = PcAfter(st)
                    /\ error' = error
                    /\ op' = Forward(op, BrentInitCalls(brent), <<Ret(f)>>)
         ELSE /\ brent' = BrentInitPoints(brent)
              /\ pc' = "error"
              /\ error' = "EvaluationError"
              /\ op' = Forward(op, BrentInitCalls(brent), <<Fail("EvaluationError")>>)
              /\ UNCHANGED <<evals, state>>
    /\ UNCHANGED <<prog, newton, arg, old, rnd>>

BrentRunInit == BrentRunInitWith(FALSE)

BrentRunInitAnyCost == BrentRunInitWith(TRUE)

\* run(), steps 2-4 with Brent: a next_iter that meets the target precision
BrentRunTerminal ==
    /\ prog = "brent"
    /\ pc = "run"
    /\ PrecisionReached(brent)
    /\ LET st == Merge(state, brent.x, brent.fx)
       IN  state' = Stop([st EXCEPT !.iter = st.iter + 1], "TargetPrecisionReached")
    /\ pc' = "done"
    /\ op' = Forward(op, BrentNextIterCalls(brent), <<>>)
    /\ UNCHANGED <<prog, brent, evals, error, newton, arg, old, rnd>>

\* run(), steps 2-4 with Brent: a next_iter that evaluates a trial point
BrentRunStepWith(partial) ==
    /\ prog = "brent"
    /\ pc = "run"
    /\ ~PrecisionReached(brent)
    /\ \E ok \in BOOLEAN, s0 \in {BrentStepTo(brent)}, calls \in {BrentNextIterCalls(brent)} :
         IF ok
         THEN \E fu \in Returns(s0.u, partial) :
                LET s == BrentUpdate(s0, fu)
                    m == Merge(state, s.x, s.fx)
                    st == Stop([m EXCEPT !.iter = m.iter + 1], "NotTerminated")
                IN  /\ brent' = s
                    /\ evals' = evals \cup {<<s0.u, fu>>}
                    /\ state' = st
                    /\ pc' = PcAfter(st)
                    /\ error' = error
                    /\ op' = Forward(op, calls, <<Ret(fu)>>)
         ELSE /\ brent' = s0
              /\ pc' = "error"
              /\ error' = "EvaluationError"
              /\ op' = Forward(op, calls, <<Fail("EvaluationError")>>)
              /\ UNCHANGED <<evals, state>>
    /\ UNCHANGED <<prog, newton, arg, old, rnd>>

BrentRunStep == BrentRunStepWith(FALSE)

BrentRunStepAnyCost == BrentRunStepWith(TRUE)

Brackets == {<<lo, hi>> : lo \in {0 - MaxWidth, 0}, hi \in 0..MaxWidth}

InitBrent ==
    /\ prog = "brent"
    /\ pc = "init"
    /\ \E br \in Brackets, en \in EpsNums, t \in 1..MaxT :
         brent = BrentNew(br[1], br[2], en, t)
    /\ \E mi \in (0..MaxItersCap) \cup {Unbounded} : state = NewState(mi)
    /\ op = NewOpWrapper
    /\ evals = {}
    /\ error = "None"
    /\ newton = NoSolver
    /\ arg = NoArg
    /\ old = NoSolver
    /\ rnd = NoCall

NextBrent == BrentRunInit \/ BrentRunTerminal \/ BrentRunStep

SpecBrent == InitBrent /\ [][NextBrent]_vars

\* the Executor's loop runs to completion: no step of a run is postponed for ever
InitBrentFair ==
    /\ InitBrent
    /\ brent.a < 0
    /\ 2 * brent.b <= MaxWidth
    /\ state.max_iters = Unbounded

SpecBrentFair == InitBrentFair /\ [][NextBrent]_vars /\ WF_vars(NextBrent)

\* set_tolerance takes any eps and t: the runs with the absolute tolerance t = 0 as
\* well.  With tol = 0 a run need not reach the target precision, so every run has an
\* iteration cap.
AnyTolIters == MaxItersCap + 2

InitBrentAnyTol ==
    /\ prog = "brent"
    /\ pc = "init"
    /\ \E br \in Brackets, en \in EpsNums, t \in 0..MaxT :
         brent = BrentNew(br[1], br[2], en, t)
    /\ state = NewState(AnyTolIters)
    /\ op = NewOpWrapper
    /\ evals = {}
    /\ error = "None"
    /\ newton = NoSolver
    /\ arg = NoArg
    /\ old = NoSolver
    /\ rnd = NoCall

SpecBrentAnyTol == InitBrentAnyTol /\ [][NextBrent]_vars

\* the runs with a positive tolerance and a cost function that may return NaN; a run
\* that has met a NaN need not reach the target precision, so every run has a cap
InitBrentAnyCost == InitBrentAnyTol /\ brent.t > 0

NextBrentAnyCost == BrentRunInitAnyCost \/ BrentRunTerminal \/ BrentRunStepAnyCost

SpecBrentAnyCost == InitBrentAnyCost /\ [][NextBrentAnyCost]_vars

(***************************************************************************)
(* The same loop without its counters.  Brent reads neither the iteration  *)
(* count nor the counts of the wrapper, and a run that does not reach the  *)
(* target precision increases them for ever; they stay as constructed      *)
(* here, so that a solver state that recurs is a state that recurs.  The    *)
(* cost function may return NaN and never fails.                           *)
(***************************************************************************)
BrentLoopInit ==
    /\ prog = "brent"
    /\ pc = "init"
    /\ \E f \in AnyCostsAt(InitPoint(brent)) :
         \E s \in {BrentInit(brent, f)} :
            /\ brent' = s
            /\ evals' = evals \cup {<<InitPoint(brent), f>>}
            /\ state' = Merge(state, s.x, s.fx)
    /\ pc' = "run"
    /\ UNCHANGED <<prog, op, error, newton, arg, old, rnd>>

BrentLoopTerminal ==
    /\ prog = "brent"
    /\ pc = "run"
    /\ PrecisionReached(brent)
    /\ state' = Stop(Merge(state, brent.x, brent.fx), "TargetPrecisionReached")
    /\ pc' = "done"
    /\ UNCHANGED <<prog, brent, op, evals, error, newton, arg, old, rnd>>

BrentLoopStep ==
    /\ prog = "brent"
    /\ pc = "run"
    /\ ~PrecisionReached(brent)
    /\ \E s0 \in {BrentStepTo(brent)} :
         \E fu \in AnyCostsAt(s0.u) :
            \E s \in {BrentUpdate(s0, fu)} :
               /\ brent' = s
               /\ evals' = evals \cup {<<s0.u, fu>>}
               /\ state' = Merge(state, s.x, s.fx)
    /\ pc' = "run"
    /\ UNCHANGED <<prog, op, error, newton, arg, old, rnd>>

NextBrentLoop == BrentLoopInit \/ BrentLoopTerminal \/ BrentLoopStep

\* the loop goes on as long as next_iter has not signalled the target precision
SpecBrentLoopFair == InitBrentFair /\ [][NextBrentLoop]_vars /\ WF_vars(NextBrentLoop)

(***************************************************************************)
(* Newton's method as a Solver: src/src/solver/newton/newton_method.rs.    *)
(* Parameters are one-dimensional: the gradient g and the Hessian h are    *)
(* numbers, h is invertible unless it is 0, and inv(h).dot(g) is g / h.    *)
(***************************************************************************)
\* Newton::new(): gamma = 1.0
NewtonNew == [gamma |-> GammaDen]

\* mutant: the lower end of the range is let in
GammaInvalidClosed(g) == g < 0 \/ g > GammaDen

\* the test of set_gamma: gamma <= 0.0 || gamma > 1.0
GammaInvalid(g) == g <= 0 \/ g > GammaDen

\* set_gamma(self, gamma): the solver is consumed, and returned only with a valid gamma
SetGamma(s, g) ==
    IF GammaInvalid(g)
    THEN [err |-> "InvalidParameter", solver |-> NoSolver]
    ELSE [err |-> "None", solver |-> [s EXCEPT !.gamma = g]]

\* hessian.inv()?.dot(&grad) in one dimension, h # 0
Direction(h, g) == IF h < 0 THEN RoundDiv(0 - g, 0 - h) ELSE RoundDiv(g, h)

\* param.scaled_sub(&gamma, &direction) = param - gamma * direction
ScaledSub(param, gamma, dir) == param - RoundDiv(gamma * dir, GammaDen)

\* mutant: the Hessian is evaluated before the gradient
NewtonNextIterHessianFirst(s, param, gr, hs) ==
    IF hs.err # "None"
    THEN [calls |-> <<(<<"hessian", param>>)>>, returned |-> <<hs>>,
          err |-> hs.err, param |-> param]
    ELSE LET both == <<(<<"hessian", param>>), (<<"gradient", param>>)>>
         IN  IF gr.err # "None"
             THEN [calls |-> both, returned |-> <<hs, gr>>, err |-> gr.err, param |-> param]
             ELSE IF hs.val = 0
             THEN [calls |-> both, returned |-> <<hs, gr>>, err |-> "NumericalError",
                   param |-> param]
             ELSE [calls |-> both, returned |-> <<hs, gr>>, err |-> "None",
                   param |-> ScaledSub(param, s.gamma, Direction(hs.val, gr.val))]

\* next_iter: the calls it makes, the error it returns and the parameter of its output,
\* for a gradient call returning gr and a Hessian call returning hs
NewtonNextIter(s, param, gr, hs) ==
    IF gr.err # "None"
    THEN [calls |-> <<(<<"gradient", param>>)>>, returned |-> <<gr>>,
          err |-> gr.err, param |-> param]
    ELSE LET both == <<(<<"gradient", param>>), (<<"hessian", param>>)>>
         IN  IF hs.err # "None"
             THEN [calls |-> both, returned |-> <<gr, hs>>, err |-> hs.err, param |-> param]
             ELSE IF hs.val = 0
             THEN [calls |-> both, returned |-> <<gr, hs>>, err |-> "NumericalError",
                   param |-> param]
             ELSE [calls |-> both, returned |-> <<gr, hs>>, err |-> "None",
                   param |-> ScaledSub(param, s.gamma, Direction(hs.val, gr.val))]

\* what the operator's gradient and hessian may return: a value, a failure of the
\* computation, or the default of an operator that does not implement the capability
OpErrors == {"EvaluationError", "NotImplemented"}
GradReturns == {Ret(g) : g \in (0 - MaxGrad)..MaxGrad} \cup {Fail(e) : e \in OpErrors}
HessReturns == {Ret(h) : h \in (0 - 1)..MaxHess} \cup {Fail(e) : e \in OpErrors}

\* merge a step output that carries a parameter and no cost
MergeParam(st, param) == [st EXCEPT !.prev_param = st.param, !.param = param]

\* Newton::new().set_gamma(g)
NewtonSetGamma ==
    /\ prog = "newton"
    /\ pc = "new"
    /\ \E g \in (0 - 1)..(GammaDen + 1) :
         LET r == SetGamma(newton, g)
         IN  /\ arg' = <<g>>
             /\ newton' = r.solver
             /\ error' = r.err
             /\ pc' = IF r.err = "None" THEN "init" ELSE "error"
    /\ UNCHANGED <<prog, brent, state, op, evals, old, rnd>>

\* run(), step 1 with Newton: the solver has no init of its own and evaluates nothing
NewtonRunInit ==
    /\ prog = "newton"
    /\ pc \in {"new", "init"}
    /\ LET st == Stop(state, "NotTerminated")
       IN  /\ state' = st
           /\ pc' = PcAfter(st)
    /\ op' = Forward(op, <<>>, <<>>)
    /\ UNCHANGED <<prog, brent, evals, error, newton, arg, old, rnd>>

\* run(), steps 2-4 with Newton: one next_iter, merged, or the error that ends the run
NewtonRunStep ==
    /\ prog = "newton"
    /\ pc = "run"
    /\ \E gr \in GradReturns, hs \in HessReturns :
         LET r == NewtonNextIter(newton, state.param, gr, hs)
             m == MergeParam(state, r.param)
             st == Stop([m EXCEPT !.iter = m.iter + 1], "NotTerminated")
         IN  /\ op' = Forward(op, r.calls, r.returned)
             /\ error' = r.err
             /\ state' = IF r.err = "None" THEN st ELSE state
             /\ pc' = IF r.err = "None" THEN PcAfter(st) ELSE "error"
    /\ UNCHANGED <<prog, brent, evals, newton, arg, old, rnd>>

InitNewton ==
    /\ prog = "newton"
    /\ pc = "new"
    /\ brent = NoSolver
    /\ \E mi \in 0..MaxItersCap, p0 \in {0 - 1, 0, 1} :
         state = [NewState(mi) EXCEPT !.param = p0]
    /\ op = NewOpWrapper
    /\ evals = {}
    /\ error = "None"
    /\ newton = NewtonNew
    /\ arg = NoArg
    /\ old = NoSolver
    /\ rnd = NoCall

NextNewton == NewtonSetGamma \/ NewtonRunInit \/ NewtonRunStep

SpecNewton == InitNewton /\ [][NextNewton]_vars

(***************************************************************************)
(* Newton's method driving itself: src/src/newton.rs.  The Problem holds   *)
(* its gradient and Hessian as options, which next_iter unwraps.           *)
(***************************************************************************)
\* the loop of run is followed for at most this many passes
OldIterBound == MaxItersCap + 2

\* Newton::new(): gamma = 1.0, max_iters = u64::MAX, NewtonState::new()
OldNewtonNew ==
    [gamma |-> GammaDen, max_iters |-> Unbounded,
     problem |-> [gradient |-> FALSE, hessian |-> FALSE], param |-> 0, iter |-> 0]

\* max_iters(&mut self, max_iters)
OldSetMaxIters(s, n) == [s EXCEPT !.max_iters = n]

\* init(problem, init_param)
OldInit(s, problem, param) == [s EXCEPT !.problem = problem, !.param = param, !.iter = 0]

\* next_iter: the new struct, or a panic of one of its unwraps, for a gradient g and a
\* Hessian h (inv() of h = 0 is an Err)
OldNextIter(s, g, h) ==
    IF ~s.problem.gradient \/ ~s.problem.hessian \/ h = 0
    THEN [panic |-> TRUE, solver |-> s]
    ELSE [panic |-> FALSE,
          solver |-> [s EXCEPT !.param = ScaledSub(s.param, s.gamma, Direction(h, g)),
                               !.iter = s.iter + 1]]

\* terminate(&self)
OldTerminate(s) == FALSE

\* Newton::new().max_iters(n)
OldNewtonMaxIters ==
    /\ prog = "newton_old"
    /\ pc = "new"
    /\ old.max_iters = Unbounded
    /\ \E n \in 1..MaxItersCap :
         /\ old' = OldSetMaxIters(old, n)
         /\ arg' = <<n>>
    /\ UNCHANGED <<prog, pc, brent, state, op, evals, error, newton, rnd>>

\* run(problem, init_param) up to its loop
OldNewtonRunInit ==
    /\ prog = "newton_old"
    /\ pc = "new"
    /\ \E gr \in BOOLEAN, hs \in BOOLEAN, p0 \in {0 - 1, 0, 1} :
         old' = OldInit(old, [gradient |-> gr, hessian |-> hs], p0)
    /\ pc' = "loop"
    /\ UNCHANGED <<prog, brent, state, op, evals, error, newton, arg, rnd>>

\* one pass of the loop of run: next_iter()?, then the test of terminate()
OldNewtonLoop ==
    /\ prog = "newton_old"
    /\ pc = "loop"
    /\ old.iter < OldIterBound
    /\ \E g \in (0 - MaxGrad)..MaxGrad, h \in (0 - 1)..MaxHess :
         LET r == OldNextIter(old, g, h)
         IN  /\ old' = r.solver
             /\ pc' = IF r.panic THEN "panic"
                      ELSE IF OldTerminate(r.solver) THEN "done" ELSE "loop"
    /\ UNCHANGED <<prog, brent, state, op, evals, error, newton, arg, rnd>>

InitNewtonOld ==
    /\ prog = "newton_old"
    /\ pc = "new"
    /\ brent = NoSolver
    /\ state = NewState(Unbounded)
    /\ op = NewOpWrapper
    /\ evals = {}
    /\ error = "None"
    /\ newton = NoSolver
    /\ arg = NoArg
    /\ old = OldNewtonNew
    /\ rnd = NoCall

NextNewtonOld == OldNewtonMaxIters \/ OldNewtonRunInit \/ OldNewtonLoop

SpecNewtonOld == InitNewtonOld /\ [][NextNewtonOld]_vars

(***************************************************************************)
(* ArgminParameter::random(lower_bound, upper_bound): src/src/parameter.rs *)
(***************************************************************************)
Min(m, n) == IF m < n THEN m ELSE n

\* mutant: the range of modify, Range::new(-1.0, 1.0), whatever the bounds
SampleUnit(lo, hi) == (0 - 1)..0

\* Range::new(lo, hi).ind_sample(&mut rng): a value of [lo, hi)
Sample(lo, hi) == lo..(hi - 1)

\* the coordinates lower_bound.iter().zip(upper_bound.iter()) yields
Zipped(lower, upper) == 1..Min(Len(lower), Len(upper))

\* <Vec<f64>>::random from coordinate i on, with out sampled so far: the outcomes
RECURSIVE VecRandom(_, _, _, _)
VecRandom(lower, upper, i, out) ==
    IF i \notin Zipped(lower, upper)
    THEN {[result |-> "Ok", out |-> out, samples |-> Len(out)]}
    ELSE IF lower[i] >= upper[i]
    THEN {[result |-> "InvalidParameter", out |-> <<>>, samples |-> Len(out)]}
    ELSE UNION {VecRandom(lower, upper, i + 1, Append(out, val)) :
                    val \in Sample(lower[i], upper[i])}

\* <Array1<T>>::random from coordinate i on: the closure of map panics on a bad pair
RECURSIVE ArrayRandom(_, _, _, _)
ArrayRandom(lower, upper, i, out) ==
    IF i \notin Zipped(lower, upper)
    THEN {[result |-> "Ok", out |-> out, samples |-> Len(out)]}
    ELSE IF lower[i] >= upper[i]
    THEN {[result |-> "panic", out |-> <<>>, samples |-> Len(out)]}
    ELSE UNION {ArrayRandom(lower, upper, i + 1, Append(out, val)) :
                    val \in Sample(lower[i], upper[i])}

PcOf(result) == IF result = "Ok" THEN "done" ELSE IF result = "panic" THEN "panic" ELSE "error"

ErrorOf(result) == IF result = "InvalidParameter" THEN result ELSE "None"

\* Vec::<f64>::random(&lower, &upper)
RandomVec ==
    /\ prog = "random"
    /\ pc = "new"
    /\ arg.impl = "Vec"
    /\ \E r \in VecRandom(arg.lower, arg.upper, 1, <<>>) :
         /\ rnd' = r
         /\ pc' = PcOf(r.result)
         /\ error' = ErrorOf(r.result)
    /\ UNCHANGED <<prog, brent, state, op, evals, newton, arg, old>>

\* Array1::<T>::random(&lower, &upper)
RandomArray1 ==
    /\ prog = "random"
    /\ pc = "new"
    /\ arg.impl = "Array1"
    /\ \E r \in ArrayRandom(arg.lower, arg.upper, 1, <<>>) :
         /\ rnd' = r
         /\ pc' = PcOf(r.result)
         /\ error' = ErrorOf(r.result)
    /\ UNCHANGED <<prog, brent, state, op, evals, newton, arg, old>>

\* the vectors of at most MaxDim coordinates on the grid 0..MaxBound
Vectors == UNION {[1..n -> 0..MaxBound] : n \in 0..MaxDim}

InitRandom ==
    /\ prog = "random"
    /\ pc = "new"
    /\ brent = NoSolver
    /\ state = NewState(Unbounded)
    /\ op = NewOpWrapper
    /\ evals = {}
    /\ error = "None"
    /\ newton = NoSolver
    /\ \E impl \in {"Vec", "Array1"}, lower \in Vectors, upper \in Vectors :
         arg = [impl |-> impl, lower |-> lower, upper |-> upper]
    /\ old = NoSolver
    /\ rnd = NoCall

NextRandom == RandomVec \/ RandomArray1

SpecRandom == InitRandom /\ [][NextRandom]_vars

(***************************************************************************)
(* Properties of a Brent run.                                              *)
(***************************************************************************)
Reason == state.termination_reason

\* a step of the run that was a successful, non-terminal next_iter
NonTerminalStep ==
    /\ pc = "run"
    /\ state'.iter = state.iter + 1
    /\ state'.termination_reason # "TargetPrecisionReached"

\* a step of the run that was a next_iter signalling TargetPrecisionReached
TerminalStep ==
    /\ pc = "run"
    /\ state'.termination_reason = "TargetPrecisionReached"

C1_Counts ==
    /\ pc = "init" => op'.cost_func_count = op.cost_func_count + 1
    /\ (pc = "run" /\ ~TerminalStep) => op'.cost_func_count = op.cost_func_count + 1
    /\ TerminalStep => op'.cost_func_count = op.cost_func_count /\ op'.calls = <<>>

\* C1: init makes exactly one cost evaluation, every non-terminal next_iter exactly
\* one and the next_iter that signals TargetPrecisionReached none; so a run that ends
\* with TargetPrecisionReached after n iterations has made n cost evaluations.
C1_EvaluationCount ==
    /\ [](Reason = "TargetPrecisionReached" => op.cost_func_count = state.iter)
    /\ [][C1_Counts]_vars

C1_Witness ==
    /\ Reason = "TargetPrecisionReached"
    /\ state.iter >= 4
    /\ op.cost_func_count = state.iter

C2_Lowest ==
    /\ state.best_cost <= state.cost
    /\ pc \in {"run", "done"} =>
          /\ state.cost = brent.fx
          /\ \A pr \in evals : brent.fx <= pr[2]

C3_Final ==
    Reason = "TargetPrecisionReached" =>
        /\ brent.a <= brent.x /\ brent.x <= brent.b
        /\ brent.x - brent.a <= 2 * Tol(brent)
        /\ brent.b - brent.x <= 2 * Tol(brent)
        /\ \A pr \in evals : ~Lt(pr[2], brent.fx)

\* C3: with a bracket a < b and a positive tolerance, repeated next_iter calls (no
\* iteration cap, no failing evaluation) eventually signal TargetPrecisionReached,
\* and then x lies in the bracket, no point of the bracket is further than
\* 2 tol <= 3 tol from x, and no evaluated point has a lower cost than x.
C3_Converges ==
    /\ []C3_Final
    /\ (pc = "init" /\ brent.a < brent.b /\ brent.t > 0 /\ state.max_iters = Unbounded)
           ~> (error # "None" \/ Reason = "TargetPrecisionReached")

C3_Witness ==
    /\ Reason = "TargetPrecisionReached"
    /\ state.max_iters = Unbounded
    /\ state.iter >= 5
    /\ brent.a < brent.x /\ brent.x < brent.b

C9_First ==
    (pc = "run" /\ state.iter = 0 /\ brent.a = brent.b) =>
        /\ state'.termination_reason = "TargetPrecisionReached"
        /\ op'.cost_func_count = 1
        /\ op'.calls = <<>>

\* C9: Brent initialized with a = b makes at most one cost evaluation, the one of
\* init, and its first next_iter signals TargetPrecisionReached.
C9_DegenerateBracket ==
    /\ [](state.iter = 0 /\ brent.a = brent.b => op.cost_func_count <= 1)
    /\ [][C9_First]_vars

C9_Witness ==
    /\ brent.a = brent.b
    /\ Reason = "TargetPrecisionReached"
    /\ state.iter = 1
    /\ op.cost_func_count = 1

C10_Accepted(fu) ==
    /\ brent'.a = (IF brent'.u < brent.x THEN brent.a ELSE brent.x)
    /\ brent'.b = (IF brent'.u < brent.x THEN brent.x ELSE brent.b)
    /\ brent'.v = brent.w /\ brent'.fv = brent.fw
    /\ brent'.w = brent.x /\ brent'.fw = brent.fx
    /\ brent'.x = brent'.u /\ brent'.fx = fu

C10_Rejected(fu) ==
    /\ brent'.a = (IF brent'.u < brent.x THEN brent'.u ELSE brent.a)
    /\ brent'.b = (IF brent'.u < brent.x THEN brent.b ELSE brent'.u)
    /\ brent'.x = brent.x /\ brent'.fx = brent.fx
    /\ IF fu <= brent.fw \/ brent.w = brent.x
       THEN <<brent'.v, brent'.fv, brent'.w, brent'.fw>> = <<brent.w, brent.fw, brent'.u, fu>>
       ELSE IF fu <= brent.fv \/ brent.v = brent.x \/ brent.v = brent.w
       THEN <<brent'.v, brent'.fv, brent'.w, brent'.fw>> = <<brent'.u, fu, brent.w, brent.fw>>
       ELSE <<brent'.v, brent'.fv, brent'.w, brent'.fw>> = <<brent.v, brent.fv, brent.w, brent.fw>>

C10_Step ==
    NonTerminalStep =>
        LET fu == op'.returned[1].val
        IN  IF fu <= brent.fx THEN C10_Accepted(fu) ELSE C10_Rejected(fu)

\* C10: after a non-terminal next_iter that evaluated u with cost fu: if fu <= fx the
\* bracket shrinks on the side opposite u and the history shifts v <- w, w <- x,
\* x <- u; otherwise the bracket shrinks on u's side, x and fx stay, and (v, w) are
\* updated by: fu <= fw or w = x: v <- w, w <- u; else fu <= fv or v = x or v = w:
\* v <- u; else nothing.
C10_Update == [][C10_Step]_vars

\* a rejected trial that took the place of v only, after an accepted one on a tie
C10_Witness ==
    /\ pc = "run"
    /\ brent.u # brent.x /\ brent.v = brent.u /\ brent.w # brent.u
    /\ brent.fv > brent.fw
    /\ brent.fw = brent.fx /\ brent.w # brent.x

(***************************************************************************)
(* Properties of Newton's method and of the parameter sampling.            *)
(***************************************************************************)
\* C4: a run of a solver that never signals termination itself, with the iteration
\* cap configured to N, stops after N iterations with MaxItersReached and makes no
\* next_iter call beyond the cap.
C4_StopsAtCap ==
    /\ (prog = "newton_old" /\ old.max_iters # Unbounded) => old.iter <= old.max_iters
    /\ prog = "newton" =>
          /\ state.iter <= state.max_iters
          /\ pc = "done" =>
                /\ Reason = "MaxItersReached"
                /\ state.iter = state.max_iters

GammaInRange(g) == 0 < g /\ g <= GammaDen

C5_SetGamma ==
    (pc = "new" /\ arg' # arg) =>
        IF GammaInRange(arg'[1])
        THEN /\ newton' = [gamma |-> arg'[1]]
             /\ error' = "None"
             /\ pc' = "init"
        ELSE /\ newton' = NoSolver
             /\ error' = "InvalidParameter"
             /\ pc' = "error"
             /\ op' = NewOpWrapper

C5_Used ==
    (pc = "run" /\ state'.iter = state.iter + 1) =>
        LET g == op'.returned[1].val
            h == op'.returned[2].val
        IN  state'.param = state.param - RoundDiv(newton.gamma * Direction(h, g), GammaDen)

C6_FailureReturned ==
    /\ pc # "panic"
    /\ (prog = "newton" /\ error \in OpErrors \cup {"NumericalError"}) =>
          /\ pc = "error"
          /\ \A i \in 1..(Len(op.returned) - 1) : op.returned[i].err = "None"
          /\ LET last == op.returned[Len(op.returned)]
             IN  IF error = "NumericalError" THEN last = Ret(0) ELSE last = Fail(error)

\* a pair of bounds with a coordinate where lower < upper fails
Invalid(lower, upper) == \E i \in Zipped(lower, upper) : ~(lower[i] < upper[i])

\* C7: if lower[i] < upper[i] fails for a coordinate, random fails with
\* InvalidParameter, an error value, in the Vec and in the Array1 implementation,
\* before any coordinate has been sampled.
C7_FailsBeforeSampling ==
    (prog = "random" /\ pc # "new" /\ Invalid(arg.lower, arg.upper)) =>
        /\ rnd.result = "InvalidParameter"
        /\ pc = "error"
        /\ rnd.samples = 0

\* C8: every vector random returns has one value for each coordinate of the bounds,
\* and lower[i] <= value[i] <= upper[i] for each.
C8_WithinBounds ==
    (prog = "random" /\ rnd.result = "Ok") =>
        /\ DOMAIN rnd.out = Zipped(arg.lower, arg.upper)
        /\ \A i \in DOMAIN rnd.out :
              arg.lower[i] <= rnd.out[i] /\ rnd.out[i] <= arg.upper[i]

C8_Witness ==
    /\ prog = "random"
    /\ rnd.result = "Ok"
    /\ Len(rnd.out) = 2
    /\ Len(arg.lower) = 2 /\ Len(arg.upper) = 2
    /\ rnd.out[1] > arg.lower[1]
    /\ rnd.out[2] = arg.lower[2]
    /\ arg.lower[2] > 0


(***************************************************************************)
(* Properties of the steps of Brent's method and of Newton's method.       *)
(***************************************************************************)
\* a step of the run that was a next_iter going past the precision test
PastPrecisionTest == pc = "run" /\ ~TerminalStep

\* the three conditions of the parabolic step, on the state before the step
C11_Conditions(s) ==
    LET pq == Parabola(s)
    IN  /\ Abs(s.e) > Tol(s)
        /\ pq.q * (s.a - s.x) < pq.p
        /\ pq.p < pq.q * (s.b - s.x)
        /\ 2 * Abs(pq.p) < Abs(pq.q * s.e)

\* e and d are those of a golden section step from s
C11_Golden(s, e, d) ==
    LET ge == (IF LeftOfMiddle(s) THEN s.b ELSE s.a) - s.x
    IN  e = ge /\ d = RoundDiv(CNum * ge, CDen)

C11_Step ==
    PastPrecisionTest =>
        \/ C11_Conditions(brent)
        \/ C11_Golden(brent, brent'.e, brent'.d)

\* C11: a non-terminal next_iter takes the parabolic step only if |e| > tol,
\* q (a - x) < p < q (b - x) with both inequalities strict and |p| < |q e| / 2; in
\* every other case it takes the golden section step e = (x < m ? b : a) - x, d = c e.
C11_ParabolicAcceptance == [][C11_Step]_vars

C12_Step ==
    PastPrecisionTest =>
        /\ Abs(brent'.u - brent.x) >= Tol(brent)
        /\ brent'.u # brent.x

\* C12: the trial point u of a non-terminal next_iter is at least tol away from the
\* best point x, x and tol being those before the step, and so is never x itself,
\* also when the parabolic step is d = 0.
C12_MinimumStep == [][C12_Step]_vars

\* a step of the run that was a successful Newton next_iter
NewtonStep == prog = "newton" /\ pc = "run" /\ state'.iter = state.iter + 1

C13_Step ==
    NewtonStep =>
        /\ op'.calls = <<(<<"gradient", state.param>>), (<<"hessian", state.param>>)>>
        /\ op'.grad_func_count = op.grad_func_count + 1
        /\ op'.hessian_func_count = op.hessian_func_count + 1
        /\ op'.cost_func_count = op.cost_func_count
        /\ LET g == op'.returned[1].val
               h == op'.returned[2].val
               dir == IF h < 0 THEN RoundDiv(0 - g, 0 - h) ELSE RoundDiv(g, h)
           IN  /\ h # 0
               /\ state'.param = state.param - RoundDiv(newton.gamma * dir, GammaDen)
        /\ state'.prev_param = state.param
        /\ error' = "None"
        /\ \/ state'.termination_reason = "NotTerminated"
           \/ state'.termination_reason = "MaxItersReached" /\ CapReached(state')

\* C13: a successful Newton next_iter makes exactly one gradient call and then one
\* Hessian call, both at the parameter of the Iteration State, makes no cost call,
\* and its output is not terminal and carries the parameter
\* param - gamma * inv(H) * g.
C13_NewtonStep ==
    /\ [](prog = "newton" => op.cost_func_count = 0)
    /\ [][C13_Step]_vars

\* two successful steps, the second one moving the parameter with gamma = 1
C13_Witness ==
    /\ prog = "newton"
    /\ state.iter = 2
    /\ op.grad_func_count = 2 /\ op.hessian_func_count = 2 /\ op.cost_func_count = 0
    /\ op.calls = <<(<<"gradient", state.prev_param>>), (<<"hessian", state.prev_param>>)>>
    /\ newton = NewtonNew
    /\ state.param # state.prev_param

\* the best point is inside the bracket
C14_Inside ==
    (prog = "brent" /\ pc # "init") => (Le(brent.a, brent.x) /\ Le(brent.x, brent.b))

C14_Step ==
    /\ PastPrecisionTest => (Le(brent.a, brent'.u) /\ Le(brent'.u, brent.b))
    /\ Le(brent.a, brent'.a)
    /\ Le(brent'.b, brent.b)

\* C14: for a Brent solver built with a <= b and any cost function, after init and
\* after every next_iter a <= x <= b, every trial point u a next_iter evaluates lies
\* in the bracket as it stood before that step, and a never decreases and b never
\* increases.
C14_Bracket ==
    /\ []C14_Inside
    /\ [][C14_Step]_vars

====
